---- MODULE Spec2Model ----
(***************************************************************************)
(* Model of src/main.pyw: PipCommandHandler (command construction, source  *)
(* registry, synchronous execution) and AsyncTaskHandler (single-task      *)
(* background execution guarded by the flag `running`).                    *)
(*                                                                         *)
(* Non-ASCII characters of the source's string literals are written as     *)
(* their \uXXXX escapes, since TLA+ strings are ASCII.                     *)
(***************************************************************************)
EXTENDS Integers, Sequences, FiniteSets, TLC

VARIABLES
    SOURCES,    \* PipCommandHandler.SOURCES: insertion-ordered dict, as a sequence of items
    pip_base,   \* PipCommandHandler.pip_base: the list built in __init__
    built,      \* the last command-builder call: its inputs and the list it returned
    lookup,     \* the last get_source_url call: its input and its outcome
    names,      \* the last value returned by the source_names property
    syncRun,    \* the last execute_command call: the process behaviour and the outcome
    running,    \* AsyncTaskHandler.running
    threads,    \* the worker threads started by execute_async, in start order
    uiPc,       \* position of the UI thread: "idle", or "warning" while the busy dialog is open
    warnings,   \* number of messagebox.showwarning calls made by execute_async
    calls,      \* number of execute_async calls made so far
    lastRejectPc \* position of the newest worker when execute_async last rejected a call

vars == <<SOURCES, pip_base, built, lookup, names, syncRun,
          running, threads, uiPc, warnings, calls, lastRejectPc>>

pureVars == <<SOURCES, pip_base, built, lookup, names, syncRun>>
asyncVars == <<running, threads, uiPc, warnings, calls, lastRejectPc>>

-----------------------------------------------------------------------------
(* Bounds and input sets                                                   *)

\* Largest exit code a child process returns in the model (codes are -1..MaxExit).
MaxExit == 1
\* Largest number of execute_async calls that are accepted (worker threads started).
MaxTasks == 2
\* Largest number of execute_async calls that are rejected.
MaxRejects == 2

ExitCodes == (-1)..MaxExit
Stdouts == {"", "Successfully installed foo"}
Stderrs == {"", "ERROR: No matching distribution"}

Packages == {"foo", "requests"}
\* The package names entered in the form when a button is pressed.
EnteredPackages == {"foo"}

\* sys.executable, the path of the running interpreter.
sys_executable == "/usr/bin/python3"

\* The dict literal of PipCommandHandler.SOURCES, in source order.
SOURCES_literal ==
    << [name |-> "\\u963f\\u91cc\\u4e91  Aliyun",
        url  |-> "https://mirrors.aliyun.com/pypi/simple"],
       [name |-> "PyPI",
        url  |-> "https://pypi.org/simple"],
       [name |-> "\\u6e05\\u534e\\u5927\\u5b66  Tsinghua University",
        url  |-> "https://pypi.tuna.tsinghua.edu.cn/simple"] >>

KnownNames == {SOURCES_literal[i].name : i \in DOMAIN SOURCES_literal}
UnknownNames == {"", "pypi", "Aliyun"}
Names == KnownNames \cup UnknownNames

Urls == {SOURCES_literal[i].url : i \in DOMAIN SOURCES_literal} \cup {"https://x/simple"}

\* The exceptions Popen raises when the executable cannot be started: it is
\* missing, it may not be executed, or the system refuses to execute it.
SpawnErrors == {"FileNotFoundError", "PermissionError", "OSError"}

\* The behaviours the operating system can give a subprocess.run call:
\*   - the executable cannot be started (error names the exception);
\*   - the child runs and exits with a code and two captured streams that
\*     decode in the locale encoding (stdout, stderr are the decoded texts);
\*   - the child runs and exits with a code, and a captured stream holds bytes
\*     that do not decode in the locale encoding (decodable is FALSE; the
\*     texts do not exist and are left empty).
Procs ==
    [spawned : {FALSE}, error : SpawnErrors, decodable : {TRUE},
     returncode : {0}, stdout : {""}, stderr : {""}]
    \cup
    [spawned : {TRUE}, error : {""}, decodable : {TRUE},
     returncode : ExitCodes, stdout : Stdouts, stderr : Stderrs]
    \cup
    [spawned : {TRUE}, error : {""}, decodable : {FALSE},
     returncode : ExitCodes, stdout : {""}, stderr : {""}]

-----------------------------------------------------------------------------
(* PipCommandHandler                                                       *)

\* __init__: self.pip_base = [sys.executable, "-m", "pip"]
PipCommandHandler_init == <<sys_executable, "-m", "pip">>

get_install_command(package, source) ==
    pip_base \o <<"install", "-i", source, package>>

get_upgrade_command(package, source) ==
    pip_base \o <<"install", "--upgrade", "-i", source, package>>

get_uninstall_command(package) ==
    pip_base \o <<"uninstall", "-y", package>>

\* tuple(self.SOURCES.keys())
source_names == [i \in DOMAIN SOURCES |-> SOURCES[i].name]

\* self.SOURCES[name]: the value of the key, or KeyError when the key is absent.
get_source_url(name) ==
    IF \E i \in DOMAIN SOURCES : SOURCES[i].name = name
    THEN [kind |-> "return",
          value |-> SOURCES[CHOOSE i \in DOMAIN SOURCES : SOURCES[i].name = name].url,
          exc |-> ""]
    ELSE [kind |-> "raise", value |-> "", exc |-> "KeyError"]

\* subprocess.run(command, capture_output=True, text=True, check=check) on a
\* process behaviour: the exception of Popen when the executable cannot be
\* started; UnicodeDecodeError when the child has ended and a captured stream
\* does not decode (communicate decodes before the exit code is looked at);
\* CalledProcessError when check is set and the exit code is not 0; otherwise
\* the CompletedProcess.
run(command, proc, check) ==
    IF ~proc.spawned
    THEN [kind |-> "raise", exc |-> proc.error,
          returncode |-> 0, stdout |-> "", stderr |-> ""]
    ELSE IF ~proc.decodable
    THEN [kind |-> "raise", exc |-> "UnicodeDecodeError",
          returncode |-> 0, stdout |-> "", stderr |-> ""]
    ELSE IF check /\ proc.returncode # 0
    THEN [kind |-> "raise", exc |-> "CalledProcessError",
          returncode |-> proc.returncode, stdout |-> proc.stdout, stderr |-> proc.stderr]
    ELSE [kind |-> "return", exc |-> "",
          returncode |-> proc.returncode, stdout |-> proc.stdout, stderr |-> proc.stderr]

\* try: run(..., check=True) -> {"success": True, "output": stdout}
\* except CalledProcessError -> {"success": False, "output": e.stderr}
\* Any other exception leaves the function.
execute_command(command, proc) ==
    LET r == run(command, proc, TRUE) IN
    IF r.kind = "return"
    THEN [kind |-> "return", exc |-> "", success |-> TRUE, output |-> r.stdout]
    ELSE IF r.exc = "CalledProcessError"
    THEN [kind |-> "return", exc |-> "", success |-> FALSE, output |-> r.stderr]
    ELSE [kind |-> "raise", exc |-> r.exc, success |-> FALSE, output |-> ""]

NoBuilt == [op |-> "none", package |-> "", source |-> "", command |-> <<>>]
NoLookup == [name |-> "", kind |-> "none", value |-> "", exc |-> ""]
NoSyncRun == [called |-> FALSE,
              proc |-> [spawned |-> FALSE, error |-> "", decodable |-> TRUE,
                        returncode |-> 0, stdout |-> "", stderr |-> ""],
              kind |-> "none", exc |-> "", success |-> FALSE, output |-> ""]

\* get_install_command written with an in-place extend of self.pip_base.
BuildInstall_inplace(package, source) ==
    /\ built' = [op |-> "install", package |-> package, source |-> source,
                 command |-> get_install_command(package, source)]
    /\ pip_base' = get_install_command(package, source)
    /\ UNCHANGED <<SOURCES, lookup, names, syncRun>>
    /\ UNCHANGED asyncVars

BuildInstall(package, source) ==
    /\ built' = [op |-> "install", package |-> package, source |-> source,
                 command |-> get_install_command(package, source)]
    /\ UNCHANGED <<SOURCES, pip_base, lookup, names, syncRun>>
    /\ UNCHANGED asyncVars

BuildUpgrade(package, source) ==
    /\ built' = [op |-> "upgrade", package |-> package, source |-> source,
                 command |-> get_upgrade_command(package, source)]
    /\ UNCHANGED <<SOURCES, pip_base, lookup, names, syncRun>>
    /\ UNCHANGED asyncVars

BuildUninstall(package) ==
    /\ built' = [op |-> "uninstall", package |-> package, source |-> "",
                 command |-> get_uninstall_command(package)]
    /\ UNCHANGED <<SOURCES, pip_base, lookup, names, syncRun>>
    /\ UNCHANGED asyncVars

\* get_source_url written as a lookup that falls back to the first entry.
GetSourceUrl_default(name) ==
    /\ lookup' = IF get_source_url(name).kind = "return"
                 THEN [name |-> name, kind |-> "return",
                       value |-> get_source_url(name).value, exc |-> ""]
                 ELSE [name |-> name, kind |-> "return",
                       value |-> SOURCES[1].url, exc |-> ""]
    /\ UNCHANGED <<SOURCES, pip_base, built, names, syncRun>>
    /\ UNCHANGED asyncVars

GetSourceUrl(name) ==
    /\ lookup' = [name |-> name,
                  kind |-> get_source_url(name).kind,
                  value |-> get_source_url(name).value,
                  exc |-> get_source_url(name).exc]
    /\ UNCHANGED <<SOURCES, pip_base, built, names, syncRun>>
    /\ UNCHANGED asyncVars

SourceNames ==
    /\ names' = source_names
    /\ UNCHANGED <<SOURCES, pip_base, built, lookup, syncRun>>
    /\ UNCHANGED asyncVars

\* execute_command on the command built last, with the process behaviour `proc`.
ExecuteCommand(proc) ==
    /\ built.op # "none"
    /\ LET res == execute_command(built.command, proc) IN
       syncRun' = [called |-> TRUE, proc |-> proc, kind |-> res.kind, exc |-> res.exc,
                   success |-> res.success, output |-> res.output]
    /\ UNCHANGED <<SOURCES, pip_base, built, lookup, names>>
    /\ UNCHANGED asyncVars

-----------------------------------------------------------------------------
(* AsyncTaskHandler                                                        *)

NoProc == [spawned |-> FALSE, error |-> "", decodable |-> TRUE,
           returncode |-> 0, stdout |-> "", stderr |-> ""]
NoResult == [set |-> FALSE, success |-> FALSE, output |-> ""]

\* A worker thread running the closure `task` of one accepted execute_async call.
\*   pc        "start"    the thread has started and is about to call run(command)
\*             "wait"     the child process is running
\*             "callback" self.ui_callback(...) is executing (its dialog is open)
\*             "clear"    ui_callback has returned, self.running = False comes next
\*             "exit"     self.running = False is done, task has not yet returned
\*             "done"     task has returned; the thread has ended
\*             "dead"     an exception left task; the thread has ended
\*   command   the closure's command
\*   proc      the behaviour of the child process
\*   exited    the child process has started and ended
\*   exc       the exception that left task
\*   result    the dict passed to ui_callback
\*   callbacks the number of times ui_callback was invoked by this task
\*   dialogs   the message boxes ui_callback showed for this task
NewThread(command) ==
    [pc |-> "start", command |-> command, proc |-> NoProc, exited |-> FALSE,
     exc |-> "", result |-> NoResult, callbacks |-> 0, dialogs |-> <<>>]

\* The positions of a live thread, and those before its self.running = False.
ActivePcs == {"start", "wait", "callback", "clear", "exit"}
BusyPcs == {"start", "wait", "callback", "clear"}

\* The live worker threads, those that have not yet cleared the flag, and the
\* position of the newest thread.
Active == {t \in DOMAIN threads : threads[t].pc \in ActivePcs}
Busy == {t \in DOMAIN threads : threads[t].pc \in BusyPcs}
NewestPc == IF threads = <<>> THEN "none" ELSE threads[Len(threads)].pc

\* {"success": result.returncode == 0, "output": result.stdout or result.stderr}
task_result(r) ==
    [set |-> TRUE,
     success |-> (r.returncode = 0),
     output |-> IF r.stdout # "" THEN r.stdout ELSE r.stderr]

\* MainUI.update_ui, the ui_callback of the program: the message boxes it shows.
update_ui(result) ==
    IF result.success
    THEN << [box |-> "showinfo", title |-> "\\u64cd\\u4f5c\\u6210\\u529f",
             message |-> result.output] >>
    ELSE << [box |-> "showerror", title |-> "\\u64cd\\u4f5c\\u5931\\u8d25",
             message |-> result.output] >>

\* execute_async without the test of self.running.
execute_async_unguarded(command) ==
    /\ uiPc = "idle"
    /\ Len(threads) < MaxTasks
    /\ running' = TRUE
    /\ threads' = Append(threads, NewThread(command))
    /\ calls' = calls + 1
    /\ UNCHANGED <<uiPc, warnings, lastRejectPc>>
    /\ UNCHANGED pureVars

\* execute_async, called on the UI thread.  While self.running is set it shows
\* the busy warning and returns; otherwise it sets the flag and starts a
\* thread on `task`.
execute_async(command) ==
    /\ uiPc = "idle"
    /\ IF running
       THEN /\ warnings < MaxRejects
            /\ warnings' = warnings + 1
            /\ uiPc' = "warning"
            /\ calls' = calls + 1
            /\ lastRejectPc' = NewestPc
            /\ UNCHANGED <<running, threads>>
       ELSE /\ Len(threads) < MaxTasks
            /\ running' = TRUE
            /\ threads' = Append(threads, NewThread(command))
            /\ calls' = calls + 1
            /\ UNCHANGED <<uiPc, warnings, lastRejectPc>>
    /\ UNCHANGED pureVars

\* messagebox.showwarning returns when the user closes the dialog; execute_async returns.
WarningDismissed ==
    /\ uiPc = "warning"
    /\ uiPc' = "idle"
    /\ UNCHANGED <<running, threads, warnings, calls, lastRejectPc>>
    /\ UNCHANGED pureVars

\* task: run(command, capture_output=True, text=True) is entered.  If the
\* executable cannot be started the exception leaves task and ends the
\* thread, and the closure's locals are gone.
TaskRun(t, proc) ==
    /\ t \in DOMAIN threads
    /\ threads[t].pc = "start"
    /\ LET r == run(threads[t].command, proc, FALSE) IN
       threads' = [threads EXCEPT ![t] =
                      IF ~proc.spawned
                      THEN [@ EXCEPT !.pc = "dead", !.exc = r.exc, !.command = <<>>]
                      ELSE [@ EXCEPT !.pc = "wait", !.proc = proc]]
    /\ UNCHANGED <<running, uiPc, warnings, calls, lastRejectPc>>
    /\ UNCHANGED pureVars

\* task with self.running = False placed before the call of ui_callback.
TaskProcessExits_clearfirst(t) ==
    /\ t \in DOMAIN threads
    /\ threads[t].pc = "wait"
    /\ LET r == run(threads[t].command, threads[t].proc, FALSE)
           res == task_result(r)
       IN threads' = [threads EXCEPT ![t] =
                         IF r.kind = "raise"
                         THEN [@ EXCEPT !.pc = "dead", !.exited = TRUE, !.exc = r.exc,
                                        !.command = <<>>, !.proc = NoProc]
                         ELSE [@ EXCEPT !.pc = "callback",
                                        !.exited = TRUE,
                                        !.result = res,
                                        !.callbacks = @ + 1,
                                        !.dialogs = @ \o update_ui(res)]]
    /\ running' = FALSE
    /\ UNCHANGED <<uiPc, warnings, calls, lastRejectPc>>
    /\ UNCHANGED pureVars

\* task: the child has ended.  run returns the CompletedProcess, the result
\* dict is built and self.ui_callback is called with it, which opens the
\* result dialog; or run raises on output it cannot decode, and the exception
\* leaves task and ends the thread.
TaskProcessExits(t) ==
    /\ t \in DOMAIN threads
    /\ threads[t].pc = "wait"
    /\ LET r == run(threads[t].command, threads[t].proc, FALSE)
           res == task_result(r)
       IN threads' = [threads EXCEPT ![t] =
                         IF r.kind = "raise"
                         THEN [@ EXCEPT !.pc = "dead", !.exited = TRUE, !.exc = r.exc,
                                        !.command = <<>>, !.proc = NoProc]
                         ELSE [@ EXCEPT !.pc = "callback",
                                        !.exited = TRUE,
                                        !.result = res,
                                        !.callbacks = @ + 1,
                                        !.dialogs = @ \o update_ui(res)]]
    /\ UNCHANGED <<running, uiPc, warnings, calls, lastRejectPc>>
    /\ UNCHANGED pureVars

\* task: the result dialog is closed and ui_callback returns.
TaskCallbackReturns(t) ==
    /\ t \in DOMAIN threads
    /\ threads[t].pc = "callback"
    /\ threads' = [threads EXCEPT ![t].pc = "clear"]
    /\ UNCHANGED <<running, uiPc, warnings, calls, lastRejectPc>>
    /\ UNCHANGED pureVars

\* task: self.running = False, its last statement; the closure's locals are
\* not read again and are dropped here.
TaskClear(t) ==
    /\ t \in DOMAIN threads
    /\ threads[t].pc = "clear"
    /\ running' = FALSE
    /\ threads' = [threads EXCEPT ![t] =
                      [@ EXCEPT !.pc = "exit", !.command = <<>>,
                                !.proc = NoProc, !.result = NoResult]]
    /\ UNCHANGED <<uiPc, warnings, calls, lastRejectPc>>
    /\ UNCHANGED pureVars

\* task returns and the worker thread ends.
TaskReturns(t) ==
    /\ t \in DOMAIN threads
    /\ threads[t].pc = "exit"
    /\ threads' = [threads EXCEPT ![t].pc = "done"]
    /\ UNCHANGED <<running, uiPc, warnings, calls, lastRejectPc>>
    /\ UNCHANGED pureVars

-----------------------------------------------------------------------------
(* Specifications                                                          *)

Init ==
    /\ SOURCES = SOURCES_literal
    /\ pip_base = PipCommandHandler_init
    /\ built = NoBuilt
    /\ lookup = NoLookup
    /\ names = <<>>
    /\ syncRun = NoSyncRun
    /\ running = FALSE
    /\ threads = <<>>
    /\ uiPc = "idle"
    /\ warnings = 0
    /\ calls = 0
    /\ lastRejectPc = "none"

\* The commands the UI hands to execute_async: on_install's and on_upgrade's,
\* with the source chosen in the combobox, and an uninstall command.
Next ==
    \/ \E p \in EnteredPackages, n \in KnownNames :
          execute_async(get_install_command(p, get_source_url(n).value))
    \/ \E p \in EnteredPackages, n \in KnownNames :
          execute_async(get_upgrade_command(p, get_source_url(n).value))
    \/ \E p \in EnteredPackages : execute_async(get_uninstall_command(p))
    \/ WarningDismissed
    \/ \E t \in 1..MaxTasks, proc \in Procs : TaskRun(t, proc)
    \/ \E t \in 1..MaxTasks : TaskProcessExits(t)
    \/ \E t \in 1..MaxTasks : TaskCallbackReturns(t)
    \/ \E t \in 1..MaxTasks : TaskClear(t)
    \/ \E t \in 1..MaxTasks : TaskReturns(t)

Spec == Init /\ [][Next]_vars

NextPure ==
    \/ \E p \in Packages, s \in Urls : BuildInstall(p, s)
    \/ \E p \in Packages, s \in Urls : BuildUpgrade(p, s)
    \/ \E p \in Packages : BuildUninstall(p)
    \/ \E n \in Names : GetSourceUrl(n)
    \/ SourceNames
    \/ \E proc \in Procs : ExecuteCommand(proc)

SpecPure == Init /\ [][NextPure]_vars

-----------------------------------------------------------------------------
(* Properties of AsyncTaskHandler, checked under Spec                      *)

InCallback == \E t \in DOMAIN threads : threads[t].pc = "callback"

\* C1: a call of execute_async made while `running` is true starts no thread
\* and spawns no process, leaves every task's callback count and dialogs as
\* they are, reports exactly one busy warning and leaves `running` true.
C1_BusyCallRejected ==
    [][ (calls' = calls + 1 /\ running) =>
            /\ threads' = threads
            /\ warnings' = warnings + 1
            /\ running' ]_vars

\* A call was rejected while the child process of the first task was running.
C1_Witness ==
    /\ Len(threads) = 1
    /\ threads[1].pc = "wait"
    /\ running
    /\ warnings = 1
    /\ calls = 2
    /\ lastRejectPc = "wait"

\* C2 as stated: in every reachable state at most one worker thread is
\* alive, at most one child process is running, and whenever a worker is
\* alive `running` is true.
C2_AsStated ==
    /\ Cardinality(Active) <= 1
    /\ Cardinality({t \in DOMAIN threads : threads[t].pc = "wait"}) <= 1
    /\ (Active # {} => running)

\* C2 amended: in every reachable state at most one worker thread has not yet
\* executed its self.running = False, at most one child process is running,
\* and whenever such a worker exists `running` is true.
C2_SingleWorker ==
    /\ Cardinality(Busy) <= 1
    /\ Cardinality({t \in DOMAIN threads : threads[t].pc = "wait"}) <= 1
    /\ (Busy # {} => running)

\* The first worker has cleared the flag and is still alive while a second
\* worker, started by a later call, is running its child process.
C2_Witness ==
    /\ Len(threads) = 2
    /\ threads[1].pc = "exit"
    /\ threads[2].pc = "wait"
    /\ running

\* C3: once the worker of an accepted call has ended, whatever happened to its
\* process, `running` is false again.
C3_ReturnsToIdle ==
    (threads # <<>> /\ Active = {}) => ~running

\* C4: a task whose process has finished has invoked ui_callback exactly once
\* and that call showed exactly one message box; a task whose process has not
\* finished has invoked it zero times; and every rejected call showed exactly
\* one busy warning.
C4_OneNotification ==
    /\ \A t \in DOMAIN threads :
          IF threads[t].exited
          THEN /\ threads[t].callbacks = 1
               /\ Len(threads[t].dialogs) = 1
          ELSE /\ threads[t].callbacks = 0
               /\ threads[t].dialogs = <<>>
    /\ warnings = calls - Len(threads)

\* C6: the result dict passed to ui_callback has success = (exit code is 0)
\* and output = stdout when the exit code is 0, stderr otherwise.
C6_OutputByExitCode ==
    \A t \in DOMAIN threads :
        threads[t].result.set =>
            /\ threads[t].result.success = (threads[t].proc.returncode = 0)
            /\ threads[t].result.output =
                  (IF threads[t].proc.returncode = 0
                   THEN threads[t].proc.stdout
                   ELSE threads[t].proc.stderr)

\* C10: while ui_callback is executing `running` is true and a call of
\* execute_async is rejected; `running` is set to false only by a task whose
\* ui_callback has returned.
C10_ClearedAfterCallback ==
    [][ /\ (InCallback => running)
        /\ (InCallback /\ calls' = calls + 1) =>
               (threads' = threads /\ warnings' = warnings + 1 /\ running')
        /\ (running /\ ~running') =>
               (\E t \in DOMAIN threads :
                    threads[t].pc = "clear" /\ threads'[t].pc = "exit") ]_vars

\* A call was rejected while the result dialog of the first task was open.
C10_Witness ==
    /\ Len(threads) = 1
    /\ threads[1].pc = "callback"
    /\ running
    /\ lastRejectPc = "callback"
    /\ uiPc = "warning"

-----------------------------------------------------------------------------
(* Properties of PipCommandHandler, checked under SpecPure                 *)

\* C5: an execute_command call whose executable is missing returns a result
\* dict with success false and a non-empty message.
C5_SpawnFailureRecovered ==
    (syncRun.called /\ ~syncRun.proc.spawned
                    /\ syncRun.proc.error = "FileNotFoundError") =>
        /\ syncRun.kind = "return"
        /\ ~syncRun.success
        /\ syncRun.output # ""

\* C7: for a process that started and ended, execute_command returns success
\* true with the captured stdout when the exit code is 0, and success false
\* with the captured stderr when it is not.
C7_SyncResult ==
    (syncRun.called /\ syncRun.proc.spawned) =>
        /\ syncRun.kind = "return"
        /\ syncRun.success = (syncRun.proc.returncode = 0)
        /\ syncRun.output = (IF syncRun.proc.returncode = 0
                             THEN syncRun.proc.stdout
                             ELSE syncRun.proc.stderr)

\* The URL the dict literal gives a name.
ConfiguredUrl(name) ==
    IF name = "PyPI" THEN "https://pypi.org/simple"
    ELSE IF name = "\\u963f\\u91cc\\u4e91  Aliyun"
    THEN "https://mirrors.aliyun.com/pypi/simple"
    ELSE "https://pypi.tuna.tsinghua.edu.cn/simple"

\* C8: get_source_url returns the configured, non-empty URL for every name of
\* the registry and fails (KeyError) for every other name; the registry and
\* the order of source_names stay as constructed under lookups and builds.
C8_SourceLookup ==
    /\ lookup.kind # "none" =>
          IF lookup.name \in KnownNames
          THEN /\ lookup.kind = "return"
               /\ lookup.value = ConfiguredUrl(lookup.name)
               /\ lookup.value # ""
          ELSE /\ lookup.kind = "raise"
               /\ lookup.exc = "KeyError"
    /\ SOURCES = SOURCES_literal
    /\ names # <<>> =>
          names = << "\\u963f\\u91cc\\u4e91  Aliyun", "PyPI",
                     "\\u6e05\\u534e\\u5927\\u5b66  Tsinghua University" >>

\* A lookup of an unknown name failed after a command was built and the names
\* were read.
C8_Witness ==
    /\ lookup.kind = "raise"
    /\ lookup.name = "pypi"
    /\ built.op # "none"
    /\ names # <<>>

\* C9 as stated: the built command starts with the single token `executable`
\* and continues directly with the pip arguments.
C9_AsStated ==
    /\ built.op = "install" =>
          built.command = <<sys_executable, "install", "-i", built.source, built.package>>
    /\ built.op = "upgrade" =>
          built.command =
              <<sys_executable, "install", "--upgrade", "-i", built.source, built.package>>
    /\ built.op = "uninstall" =>
          built.command = <<sys_executable, "uninstall", "-y", built.package>>
    /\ pip_base = PipCommandHandler_init

\* C9 amended: every built command starts with the three tokens
\* sys.executable, "-m", "pip", followed by the pip arguments; it depends on
\* the inputs alone, and pip_base stays as constructed.
C9_Commands ==
    /\ built.op = "install" =>
          built.command =
              <<sys_executable, "-m", "pip", "install", "-i", built.source, built.package>>
    /\ built.op = "upgrade" =>
          built.command =
              <<sys_executable, "-m", "pip", "install", "--upgrade", "-i",
                built.source, built.package>>
    /\ built.op = "uninstall" =>
          built.command = <<sys_executable, "-m", "pip", "uninstall", "-y", built.package>>
    /\ pip_base = <<sys_executable, "-m", "pip">>

\* An upgrade command was built, after a lookup, for a URL outside the registry.
C9_Witness ==
    /\ built.op = "upgrade"
    /\ built.source = "https://x/simple"
    /\ built.package = "foo"
    /\ Len(built.command) = 8
    /\ lookup.kind # "none"

====
